---- MODULE Spec2Model ----
(***************************************************************************)
(* Model of jobrun_locator_per_pr_jobs.go: the per-PR prow job matcher and *)
(* the ci-secret-generator pipeline (validateCompletedOptions,             *)
(* processBwParameters, updateSecrets).                                    *)
(*                                                                         *)
(* Go strings that take part in placeholder substitution are sequences of  *)
(* one-character strings, so that strings.ReplaceAll is computed and not   *)
(* assumed.                                                                *)
(***************************************************************************)
EXTENDS Integers, Sequences, FiniteSets, TLC

VARIABLES
    pc,               \* position in main / updateSecrets / the direct call
    bwPassword,       \* options.bwPassword
    config,           \* options.config, the bwItems handed to updateSecrets
    validateErr,      \* what validateCompletedOptions returned
    processedBwItems, \* processBwParameters' first result
    holders,          \* history: bwItemsProcessingHolder of each template at line 262
    copyFails,        \* history: the deepcopy.Copy calls that failed
    paramErr,         \* processBwParameters' second result
    errs,             \* updateSecrets' errs
    itemIdx,          \* index of bwItem in the loop of line 275
    entryIdx,         \* index of field / attachment in the loops of lines 277, 295
    cmds,             \* history: the executeCommand calls made
    calls,            \* history: the bitwarden.Client calls made
    failures,         \* number of command and store failures injected so far
    result,           \* what updateSecrets returned
    matcher,          \* the perPRProwJobMatcher
    prowJob,          \* the prow job handed to the matcher
    idMatches         \* what shouldAggregateReleaseControllerJob returned

vars == <<pc, bwPassword, config, validateErr, processedBwItems, holders,
          copyFails, paramErr, errs, itemIdx, entryIdx, cmds, calls, failures,
          result, matcher, prowJob, idMatches>>

-----------------------------------------------------------------------------
(* Bounds *)

MaxItems == 2

MaxFailures == 2

MaxCopyFailures == 1

-----------------------------------------------------------------------------
(* Helpers *)

Range(s) == {s[n] : n \in DOMAIN s}

Min(S) == CHOOSE x \in S : \A y \in S : x <= y

RECURSIVE Product(_, _)
Product(f, S) ==
    IF S = {} THEN 1
    ELSE LET x == CHOOSE y \in S : TRUE IN f[x] * Product(f, S \ {x})

RECURSIVE Flatten(_)
Flatten(ss) == IF ss = <<>> THEN <<>> ELSE Head(ss) \o Flatten(Tail(ss))

Nil == [kind |-> "nil"]

NilOut == [outputOf |-> 0]

-----------------------------------------------------------------------------
(* Data *)

fieldGenerator(name, cmd) == [Name |-> name, Cmd |-> cmd]

bitWardenItem(itemName, fields, attachments, password, notes, params) ==
    [ItemName |-> itemName, Fields |-> fields, Attachments |-> attachments,
     Password |-> password, Notes |-> notes, Params |-> params]

\* bitWardenItem{}: what argItem is before deepcopy.Copy fills it.
zeroItem == bitWardenItem(<<>>, <<>>, <<>>, <<>>, <<>>, <<>>)

-----------------------------------------------------------------------------
(* replaceParameter *)

\* fmt.Sprintf("$(%s)", paramName)
Placeholder(paramName) == <<"$", "(">> \o paramName \o <<")">>

\* strings.ReplaceAll for a non-empty old: non-overlapping matches, left to
\* right, the replacement is not rescanned.
RECURSIVE ReplaceAll(_, _, _)
ReplaceAll(s, old, new) ==
    IF Len(s) < Len(old) THEN s
    ELSE IF SubSeq(s, 1, Len(old)) = old
         THEN new \o ReplaceAll(SubSeq(s, Len(old) + 1, Len(s)), old, new)
         ELSE <<Head(s)>> \o ReplaceAll(Tail(s), old, new)

replaceParameter(paramName, param, template) ==
    ReplaceAll(template, Placeholder(paramName), param)

-----------------------------------------------------------------------------
(* processBwParameters *)

\* deepcopy.Copy(&argItem, &qItem): a JSON round trip of qItem into argItem.
\* The strings of a parsed config are valid UTF-8 and come back unchanged;
\* when the copy fails argItem stays the zero value it was declared as.
deepcopyCopy(qItem, fail) == IF fail THEN zeroItem ELSE qItem

replaceInGenerators(paramName, param, gens) ==
    [n \in DOMAIN gens |->
        fieldGenerator(replaceParameter(paramName, param, gens[n].Name),
                       replaceParameter(paramName, param, gens[n].Cmd))]

\* Lines 246-256: the placeholder of one parameter replaced in every string
\* of argItem.
replaceInItem(paramName, param, argItem) ==
    [argItem EXCEPT
        !.ItemName    = replaceParameter(paramName, param, argItem.ItemName),
        !.Fields      = replaceInGenerators(paramName, param, argItem.Fields),
        !.Attachments = replaceInGenerators(paramName, param, argItem.Attachments),
        !.Password    = replaceParameter(paramName, param, argItem.Password),
        !.Notes       = replaceParameter(paramName, param, argItem.Notes)]

\* The orders in which `range bwItemWithParams.Params` can visit the map.
\* Go leaves the order of a map iteration unspecified.
ParamOrders(bwItem) ==
    LET D == DOMAIN bwItem.Params
    IN  {o \in [1..Cardinality(D) -> D] :
            \A m, n \in 1..Cardinality(D) : m # n => o[m] # o[n]}

\* len(bwItemsProcessingHolder) when the s-th parameter of order is reached.
RECURSIVE HolderSize(_, _, _)
HolderSize(bwItem, order, s) ==
    IF s <= 1 THEN 1
    ELSE HolderSize(bwItem, order, s - 1) * Len(bwItem.Params[order[s - 1]])

\* The deepcopy.Copy calls made for template k: <<k, s, q, v>> is the copy
\* of the q-th held item for the v-th value of the s-th parameter visited.
CopySites(k, bwItem, order) ==
    UNION {{<<k, s, q, v>> : q \in 1..HolderSize(bwItem, order, s),
                            v \in 1..Len(bwItem.Params[order[s]])} :
           s \in 1..Len(order)}

\* Lines 238-259: one pass of the loop over the parameters.
bwItemsProcessed(k, s, holder, paramName, params, fails) ==
    [n \in 1..(Len(holder) * Len(params)) |->
        LET q == ((n - 1) \div Len(params)) + 1
            v == ((n - 1) % Len(params)) + 1
        IN  replaceInItem(paramName, params[v],
                          deepcopyCopy(holder[q], <<k, s, q, v>> \in fails))]

RECURSIVE expandFrom(_, _, _, _, _, _)
expandFrom(k, bwItemWithParams, order, s, holder, fails) ==
    IF s > Len(order) THEN holder
    ELSE expandFrom(k, bwItemWithParams, order, s + 1,
                    bwItemsProcessed(k, s, holder, order[s],
                                     bwItemWithParams.Params[order[s]], fails),
                    fails)

\* Lines 236-261: bwItemsProcessingHolder once every parameter was visited.
bwItemsProcessingHolder(k, bwItemWithParams, order, fails) ==
    expandFrom(k, bwItemWithParams, order, 1, <<bwItemWithParams>>, fails)

\* Line 235: hasErrors is declared false and no statement assigns it.
hasErrors(k, fails) == FALSE

copyError(bwItemWithParams) == [kind |-> "copy", item |-> bwItemWithParams]

\* utilerrors.NewAggregate: nil for an empty list.
NewAggregate(es) == IF es = <<>> THEN Nil ELSE [kind |-> "aggregate", errs |-> es]

processBwParameters(bwItems, orders, fails) ==
    LET hs == [k \in DOMAIN bwItems |->
                  bwItemsProcessingHolder(k, bwItems[k], orders[k], fails)]
        es == Flatten([k \in DOMAIN bwItems |->
                  [n \in 1..Cardinality({f \in fails : f[1] = k}) |->
                      copyError(bwItems[k])]])
    IN  [items   |-> Flatten([k \in DOMAIN bwItems |->
                                 IF ~hasErrors(k, fails) THEN hs[k] ELSE <<>>]),
         holders |-> hs,
         err     |-> NewAggregate(es)]

\* The environment of one call: an iteration order for each template's map
\* and the copies that fail.
Orderings(bwItems) ==
    {os \in [DOMAIN bwItems -> UNION {ParamOrders(bwItems[k]) : k \in DOMAIN bwItems}] :
        \A k \in DOMAIN bwItems : os[k] \in ParamOrders(bwItems[k])}

AllCopySites(bwItems, orders) ==
    UNION {CopySites(k, bwItems[k], orders[k]) : k \in DOMAIN bwItems}

CopyFailures(bwItems, orders) ==
    {F \in SUBSET AllCopySites(bwItems, orders) : Cardinality(F) <= MaxCopyFailures}

-----------------------------------------------------------------------------
(* validateCompletedOptions *)

cmdEmptyErr(itemIndex, entryIndex, entry) ==
    [kind |-> "cmdEmpty", itemIndex |-> itemIndex, entry |-> entry,
     entryIndex |-> entryIndex]

\* Indexes of the entries with a name and no cmd.
namedWithoutCmd(gens) == {n \in DOMAIN gens : gens[n].Name # <<>> /\ gens[n].Cmd = <<>>}

\* Lines 196-214 for the item at index i (0-based in the error, as in Go).
\* Both entry loops range over bwItem.Fields.  The parameter named by the
\* last error depends on the map's iteration order and is left out.
itemError(i, bwItem) ==
    IF bwItem.ItemName = <<>>
    THEN [kind |-> "itemName", itemIndex |-> i - 1]
    ELSE IF namedWithoutCmd(bwItem.Fields) # {}
    THEN cmdEmptyErr(i - 1, Min(namedWithoutCmd(bwItem.Fields)) - 1, "fields")
    ELSE IF namedWithoutCmd(bwItem.Fields) # {}
    THEN cmdEmptyErr(i - 1, Min(namedWithoutCmd(bwItem.Fields)) - 1, "attachments")
    ELSE IF \E p \in DOMAIN bwItem.Params : Len(bwItem.Params[p]) = 0
    THEN [kind |-> "paramEmpty", itemIndex |-> i - 1]
    ELSE Nil

validateCompletedOptions(password, cfg) ==
    IF password = <<>>
    THEN [kind |-> "bwPasswordEmpty"]
    ELSE LET bad == {i \in DOMAIN cfg : itemError(i, cfg[i]) # Nil}
         IN  IF bad = {} THEN Nil ELSE itemError(Min(bad), cfg[Min(bad)])

-----------------------------------------------------------------------------
(* updateSecrets *)

\* executeCommand: the captured output on success, nil and an error when the
\* command fails.  The output of the n-th execution is the opaque value
\* [outputOf |-> n]; no code of the updater looks inside it.
executeCommand(command, ok, n) ==
    IF ok THEN [out |-> [outputOf |-> n], err |-> FALSE]
    ELSE [out |-> NilOut, err |-> TRUE]

\* As uploads, without the `continue` and the else: the store call is made
\* after a failed command too.
uploadsAfterFailure(cmdErr) == TRUE

\* Whether the store call after a command is reached: the `continue` of
\* lines 287 and 305 and the else of line 322 skip it when the command failed.
uploads(cmdErr) == ~cmdErr

\* As errsAfter, a failed command also reported as a failed upload.
errsAfterTwice(es, cmdErr, uploaded, storeOK, where) ==
    IF cmdErr
    THEN Append(Append(es, [kind |-> "command", where |-> where]),
                [kind |-> "upload", where |-> where])
    ELSE IF uploaded /\ ~storeOK THEN Append(es, [kind |-> "upload", where |-> where])
    ELSE es

\* The errs after one field, attachment or password: one error for a failed
\* command (lines 286, 303, 320), one for a failed store call (290, 308, 324).
errsAfter(es, cmdErr, uploaded, storeOK, where) ==
    IF cmdErr THEN Append(es, [kind |-> "command", where |-> where])
    ELSE IF uploaded /\ ~storeOK THEN Append(es, [kind |-> "upload", where |-> where])
    ELSE es

\* As nextEntry, a `break` in place of `continue`.
nextEntryBreak(n, len, failed) == IF failed THEN len + 1 ELSE n + 1

\* The index of the loop after an entry: `continue` and the end of the body
\* both go on with the next entry.
nextEntry(n, len, failed) == n + 1

\* Line 313.
runsPassword(bwItem) == bwItem.Password # <<>>

\* As updatesNotes, without the check of line 333.
updatesNotesAlways(bwItem) == TRUE

\* Line 333.
updatesNotes(bwItem) == bwItem.Notes # <<>>

\* One command and its upload, the shape shared by lines 283-293, 301-311
\* and 318-327: the histories and errs after it.
generate(kind, op, bwItem, name, cmd, cmdOK, storeOK) ==
    LET r     == executeCommand(cmd, cmdOK, Len(cmds) + 1)
        where == [item |-> itemIdx, kind |-> kind, entry |-> entryIdx]
        up    == uploads(r.err)
    IN  [cmds  |-> Append(cmds, [kind |-> kind, item |-> itemIdx, entry |-> entryIdx,
                                 cmd |-> cmd, ok |-> ~r.err, out |-> r.out]),
         calls |-> IF up
                   THEN Append(calls, [op |-> op, itemName |-> bwItem.ItemName,
                                       name |-> name, value |-> r.out, ok |-> storeOK,
                                       item |-> itemIdx, entry |-> entryIdx])
                   ELSE calls,
         errs  |-> errsAfter(errs, r.err, up, storeOK, where)]

\* The outcomes the environment can give one command and its upload, within
\* the budget of injected failures.
Outcomes ==
    {o \in [cmdOK : BOOLEAN, storeOK : BOOLEAN] :
        /\ (~o.cmdOK => o.storeOK)
        /\ (~(o.cmdOK /\ o.storeOK) => failures < MaxFailures)}

failed(o) == ~(o.cmdOK /\ o.storeOK)

bwItemNow == processedBwItems[itemIdx]

unchangedConfig == UNCHANGED <<bwPassword, config, matcher, prowJob, idMatches>>

unchangedExpansion == UNCHANGED <<validateErr, processedBwItems, holders, copyFails, paramErr>>

\* main, lines 357-359: completeOptions ends in validateCompletedOptions and
\* an error is fatal.
Validate ==
    /\ pc = "validate"
    /\ validateErr' = validateCompletedOptions(bwPassword, config)
    /\ pc' = IF validateErr' = Nil THEN "updateSecrets" ELSE "fatal"
    /\ UNCHANGED <<processedBwItems, holders, copyFails, paramErr, errs, itemIdx,
                   entryIdx, cmds, calls, failures, result>>
    /\ unchangedConfig

\* Lines 270-274.
UpdateSecretsStart ==
    /\ pc = "updateSecrets"
    /\ \E orders \in Orderings(config) :
         \E fails \in CopyFailures(config, orders) :
            LET r == processBwParameters(config, orders, fails)
            IN  /\ processedBwItems' = r.items
                /\ holders' = r.holders
                /\ copyFails' = fails
                /\ paramErr' = r.err
                /\ errs' = IF r.err # Nil
                           THEN <<[kind |-> "parse", err |-> r.err]>>
                           ELSE <<>>
    /\ itemIdx' = 1
    /\ pc' = "item"
    /\ UNCHANGED <<validateErr, entryIdx, cmds, calls, failures, result>>
    /\ unchangedConfig

\* Line 275, an item is left.
NextItem ==
    /\ pc = "item"
    /\ itemIdx <= Len(processedBwItems)
    /\ pc' = "fields"
    /\ entryIdx' = 1
    /\ UNCHANGED <<errs, itemIdx, cmds, calls, failures, result>>
    /\ unchangedExpansion /\ unchangedConfig

\* Lines 277-294, one field.
ProcessField ==
    /\ pc = "fields"
    /\ entryIdx <= Len(bwItemNow.Fields)
    /\ \E o \in Outcomes :
         LET field == bwItemNow.Fields[entryIdx]
             g == generate("field", "SetFieldOnItem", bwItemNow, field.Name,
                           field.Cmd, o.cmdOK, o.storeOK)
         IN  /\ cmds' = g.cmds
             /\ calls' = g.calls
             /\ errs' = g.errs
             /\ failures' = IF failed(o) THEN failures + 1 ELSE failures
             /\ entryIdx' = nextEntry(entryIdx, Len(bwItemNow.Fields), failed(o))
    /\ UNCHANGED <<pc, itemIdx, result>>
    /\ unchangedExpansion /\ unchangedConfig

FieldsDone ==
    /\ pc = "fields"
    /\ entryIdx > Len(bwItemNow.Fields)
    /\ pc' = "attachments"
    /\ entryIdx' = 1
    /\ UNCHANGED <<errs, itemIdx, cmds, calls, failures, result>>
    /\ unchangedExpansion /\ unchangedConfig

\* Lines 295-312, one attachment.
ProcessAttachment ==
    /\ pc = "attachments"
    /\ entryIdx <= Len(bwItemNow.Attachments)
    /\ \E o \in Outcomes :
         LET attachment == bwItemNow.Attachments[entryIdx]
             g == generate("attachment", "SetAttachmentOnItem", bwItemNow,
                           attachment.Name, attachment.Cmd, o.cmdOK, o.storeOK)
         IN  /\ cmds' = g.cmds
             /\ calls' = g.calls
             /\ errs' = g.errs
             /\ failures' = IF failed(o) THEN failures + 1 ELSE failures
             /\ entryIdx' = nextEntry(entryIdx, Len(bwItemNow.Attachments), failed(o))
    /\ UNCHANGED <<pc, itemIdx, result>>
    /\ unchangedExpansion /\ unchangedConfig

AttachmentsDone ==
    /\ pc = "attachments"
    /\ entryIdx > Len(bwItemNow.Attachments)
    /\ pc' = "password"
    /\ entryIdx' = 1
    /\ UNCHANGED <<errs, itemIdx, cmds, calls, failures, result>>
    /\ unchangedExpansion /\ unchangedConfig

\* Lines 313-328.
ProcessPassword ==
    /\ pc = "password"
    /\ runsPassword(bwItemNow)
    /\ \E o \in Outcomes :
         LET g == generate("password", "SetPassword", bwItemNow, <<>>,
                           bwItemNow.Password, o.cmdOK, o.storeOK)
         IN  /\ cmds' = g.cmds
             /\ calls' = g.calls
             /\ errs' = g.errs
             /\ failures' = IF failed(o) THEN failures + 1 ELSE failures
    /\ pc' = "notes"
    /\ UNCHANGED <<itemIdx, entryIdx, result>>
    /\ unchangedExpansion /\ unchangedConfig

SkipPassword ==
    /\ pc = "password"
    /\ ~runsPassword(bwItemNow)
    /\ pc' = "notes"
    /\ UNCHANGED <<errs, itemIdx, entryIdx, cmds, calls, failures, result>>
    /\ unchangedExpansion /\ unchangedConfig

\* Lines 333-342, then the next item.
UpdateNotes ==
    /\ pc = "notes"
    /\ updatesNotes(bwItemNow)
    /\ \E storeOK \in BOOLEAN :
         /\ ~storeOK => failures < MaxFailures
         /\ calls' = Append(calls, [op |-> "UpdateNotesOnItem",
                                    itemName |-> bwItemNow.ItemName, name |-> <<>>,
                                    value |-> bwItemNow.Notes, ok |-> storeOK,
                                    item |-> itemIdx, entry |-> entryIdx])
         /\ errs' = IF storeOK THEN errs
                    ELSE Append(errs, [kind |-> "notes", where |-> [item |-> itemIdx]])
         /\ failures' = IF storeOK THEN failures ELSE failures + 1
    /\ pc' = "item"
    /\ itemIdx' = itemIdx + 1
    /\ UNCHANGED <<entryIdx, cmds, result>>
    /\ unchangedExpansion /\ unchangedConfig

SkipNotes ==
    /\ pc = "notes"
    /\ ~updatesNotes(bwItemNow)
    /\ pc' = "item"
    /\ itemIdx' = itemIdx + 1
    /\ UNCHANGED <<errs, entryIdx, cmds, calls, failures, result>>
    /\ unchangedExpansion /\ unchangedConfig

\* Line 344.
Return ==
    /\ pc = "item"
    /\ itemIdx > Len(processedBwItems)
    /\ result' = NewAggregate(errs)
    /\ pc' = "done"
    /\ UNCHANGED <<errs, itemIdx, entryIdx, cmds, calls, failures>>
    /\ unchangedExpansion /\ unchangedConfig

-----------------------------------------------------------------------------
(* The configurations checked *)

pa == <<"a">>

pb == <<"b">>

NoParams == <<>>

ConfigTemplates ==
    { \* one field and one attachment
      bitWardenItem(<<"x">>, <<fieldGenerator(<<"f">>, <<"c">>)>>,
                    <<fieldGenerator(<<"g">>, <<"d">>)>>, <<>>, <<>>, NoParams),
      \* one parameter with two values, an attachment and notes
      bitWardenItem(Placeholder(pa), <<>>,
                    <<fieldGenerator(<<"g">>, <<"c">> \o Placeholder(pa))>>, <<>>,
                    <<"n">> \o Placeholder(pa), pa :> << <<"1">>, <<"2">> >>),
      \* a password only
      bitWardenItem(<<"y">>, <<>>, <<>>, <<"p">>, <<>>, NoParams),
      \* two fields and notes
      bitWardenItem(<<"z">>, <<fieldGenerator(<<"f">>, <<"c">>),
                               fieldGenerator(<<"h">>, <<"e">>)>>,
                    <<>>, <<>>, <<"n">>, NoParams),
      \* a field with a name and no cmd
      bitWardenItem(<<"x">>, <<fieldGenerator(<<"f">>, <<>>)>>, <<>>, <<>>, <<>>,
                    NoParams),
      \* an unnamed field without cmd and an attachment with a name and no cmd
      bitWardenItem(<<"w">>, <<fieldGenerator(<<>>, <<>>)>>,
                    <<fieldGenerator(<<"g">>, <<>>)>>, <<>>, <<>>, NoParams),
      \* no item name
      bitWardenItem(<<>>, <<>>, <<>>, <<"p">>, <<>>, NoParams),
      \* a parameter without values
      bitWardenItem(<<"x">>, <<>>, <<>>, <<>>, <<"n">>, pa :> <<>>) }

SeqsUpTo(S, n) == UNION {[1..m -> S] : m \in 1..n}

noMatcher == [matchID |-> "", matchLabel |-> ""]

noProwJob == [Labels |-> <<>>]

Init ==
    /\ pc = "validate"
    /\ bwPassword \in {<<>>, <<"s">>}
    /\ config \in SeqsUpTo(ConfigTemplates, MaxItems)
    /\ validateErr = Nil
    /\ processedBwItems = <<>>
    /\ holders = <<>>
    /\ copyFails = {}
    /\ paramErr = Nil
    /\ errs = <<>>
    /\ itemIdx = 0
    /\ entryIdx = 0
    /\ cmds = <<>>
    /\ calls = <<>>
    /\ failures = 0
    /\ result = Nil
    /\ matcher = noMatcher
    /\ prowJob = noProwJob
    /\ idMatches = FALSE

Next ==
    \/ Validate
    \/ UpdateSecretsStart
    \/ NextItem
    \/ ProcessField
    \/ FieldsDone
    \/ ProcessAttachment
    \/ AttachmentsDone
    \/ ProcessPassword
    \/ SkipPassword
    \/ UpdateNotes
    \/ SkipNotes
    \/ Return

Spec == Init /\ [][Next]_vars

-----------------------------------------------------------------------------
(* processBwParameters called on its own *)

ExpandTemplates ==
    { \* no parameters; the placeholder of an undeclared parameter
      bitWardenItem(<<"x">> \o Placeholder(pa),
                    <<fieldGenerator(<<"f">>, <<"c">>)>>, <<>>, <<>>, <<"n">>, NoParams),
      \* a: [x, y], b: [1, 2], placeholders in every string
      bitWardenItem(Placeholder(pa) \o <<"-">> \o Placeholder(pb),
                    <<fieldGenerator(Placeholder(pa),
                                     <<"c">> \o Placeholder(pb) \o Placeholder(pa))>>,
                    <<fieldGenerator(Placeholder(pb), Placeholder(pa))>>,
                    Placeholder(pa) \o Placeholder(pa),
                    Placeholder(pb),
                    (pa :> << <<"x">>, <<"y">> >>) @@ (pb :> << <<"1">>, <<"2">> >>)),
      \* a value of a is the placeholder of b
      bitWardenItem(Placeholder(pa), <<>>, <<>>, <<>>, <<>>,
                    (pa :> << Placeholder(pb) >>) @@ (pb :> << <<"1">> >>)),
      \* one parameter, two values, no placeholder of it in the name
      bitWardenItem(<<"x">>, <<>>, <<>>, <<"p">>, Placeholder(pa) \o Placeholder(pb),
                    pa :> << <<"1">>, <<"2">> >>),
      \* a value of a is the placeholder of a itself
      bitWardenItem(Placeholder(pa), <<>>, <<>>, <<>>, <<"n">>,
                    pa :> << Placeholder(pa) >>) }

InitExpand ==
    /\ pc = "call"
    /\ bwPassword = <<"s">>
    /\ config \in SeqsUpTo(ExpandTemplates, MaxItems)
    /\ validateErr = Nil
    /\ processedBwItems = <<>>
    /\ holders = <<>>
    /\ copyFails = {}
    /\ paramErr = Nil
    /\ errs = <<>>
    /\ itemIdx = 0
    /\ entryIdx = 0
    /\ cmds = <<>>
    /\ calls = <<>>
    /\ failures = 0
    /\ result = Nil
    /\ matcher = noMatcher
    /\ prowJob = noProwJob
    /\ idMatches = FALSE

\* processedBwItems, err := processBwParameters(bwItems)
CallProcessBwParameters ==
    /\ pc = "call"
    /\ \E orders \in Orderings(config) :
         \E fails \in CopyFailures(config, orders) :
            LET r == processBwParameters(config, orders, fails)
            IN  /\ processedBwItems' = r.items
                /\ holders' = r.holders
                /\ copyFails' = fails
                /\ paramErr' = r.err
    /\ pc' = "returned"
    /\ UNCHANGED <<validateErr, errs, itemIdx, entryIdx, cmds, calls, failures, result>>
    /\ unchangedConfig

NextExpand == CallProcessBwParameters

SpecExpand == InitExpand /\ [][NextExpand]_vars

-----------------------------------------------------------------------------
(* perPRProwJobMatcher *)

AggregationIDLabel == "release.openshift.io/aggregation-id"

\* m[k] of a Go map: the zero value for a missing key.
mapGet(m, k) == IF k \in DOMAIN m THEN m[k] ELSE ""

\* As shouldAggregateReleaseControllerJob, without len(a.matchID) > 0.
shouldAggregateAnyID(a, job) ==
    LET id == mapGet(job.Labels, a.matchLabel)
    IN  id = a.matchID

\* Lines 46-54; jobName and jobRunId are only printed.
shouldAggregateReleaseControllerJob(a, job) ==
    LET id == mapGet(job.Labels, a.matchLabel)
    IN  Len(a.matchID) > 0 /\ id = a.matchID

LabelNames == {AggregationIDLabel, "prow.k8s.io/job"}

LabelValues == {"", "id1", "id2"}

LabelMaps == UNION {[D -> LabelValues] : D \in SUBSET LabelNames}

InitMatcher ==
    /\ pc = "match"
    /\ matcher \in [matchID : LabelValues, matchLabel : LabelNames]
    /\ prowJob \in [Labels : LabelMaps]
    /\ idMatches = FALSE
    /\ bwPassword = <<>>
    /\ config = <<>>
    /\ validateErr = Nil
    /\ processedBwItems = <<>>
    /\ holders = <<>>
    /\ copyFails = {}
    /\ paramErr = Nil
    /\ errs = <<>>
    /\ itemIdx = 0
    /\ entryIdx = 0
    /\ cmds = <<>>
    /\ calls = <<>>
    /\ failures = 0
    /\ result = Nil

CallMatcher ==
    /\ pc = "match"
    /\ idMatches' = shouldAggregateReleaseControllerJob(matcher, prowJob)
    /\ pc' = "matched"
    /\ UNCHANGED <<bwPassword, config, validateErr, processedBwItems, holders,
                   copyFails, paramErr, errs, itemIdx, entryIdx, cmds, calls,
                   failures, result, matcher, prowJob>>

NextMatcher == CallMatcher

SpecMatcher == InitMatcher /\ [][NextMatcher]_vars

-----------------------------------------------------------------------------
(* Properties of updateSecrets, checked under Spec *)

CmdsOf(i) == {n \in DOMAIN cmds : cmds[n].item = i}

CallsOf(i) == {m \in DOMAIN calls : calls[m].item = i}

NotesCalls(i) == {m \in CallsOf(i) : calls[m].op = "UpdateNotesOnItem"}

Attempted(kind, i, j, cmd) ==
    \E n \in CmdsOf(i) : cmds[n].kind = kind /\ cmds[n].entry = j /\ cmds[n].cmd = cmd

FailedCmds == {n \in DOMAIN cmds : ~cmds[n].ok}

FailedCalls == {m \in DOMAIN calls : ~calls[m].ok}

ItemComplete(i) ==
    LET bwItem == processedBwItems[i]
    IN  /\ \A j \in DOMAIN bwItem.Fields :
              Attempted("field", i, j, bwItem.Fields[j].Cmd)
        /\ \A j \in DOMAIN bwItem.Attachments :
              Attempted("attachment", i, j, bwItem.Attachments[j].Cmd)
        /\ bwItem.Password # <<>> =>
              \E n \in CmdsOf(i) : cmds[n].kind = "password" /\ cmds[n].cmd = bwItem.Password
        /\ bwItem.Notes # <<>> => NotesCalls(i) # {}

\* C1: updateSecrets returns only after the loop has passed every expanded
\* item, and for every item it has passed, every field command, every
\* attachment command, the password command (password non-empty) and the
\* notes update (notes non-empty) was attempted, whatever failed before.
C1_NeverStopsEarly ==
    /\ pc = "done" => itemIdx > Len(processedBwItems)
    /\ \A i \in DOMAIN processedBwItems : i < itemIdx => ItemComplete(i)

\* A run that ended with a failed command followed by another attempt in the
\* same item and by an attempt in a later item, and with a failed store call.
C1_Witness ==
    /\ pc = "done"
    /\ FailedCalls # {}
    /\ \E n \in FailedCmds :
          /\ \E n2 \in CmdsOf(cmds[n].item) : n2 > n
          /\ \E n3 \in DOMAIN cmds : cmds[n3].item > cmds[n].item

\* C5: once validateCompletedOptions has run, a configuration with a field
\* or an attachment that has a name and no cmd was rejected, so none goes on
\* to expansion and the updater.
C5_NamedWithoutCmdRejected ==
    (/\ pc # "validate"
     /\ \E i \in DOMAIN config :
           \/ namedWithoutCmd(config[i].Fields) # {}
           \/ namedWithoutCmd(config[i].Attachments) # {})
    => (validateErr # Nil /\ pc = "fatal")

\* C6: no UpdateNotesOnItem for an item with empty notes; for an item with
\* notes, one call once the item is passed (never more), with the item's
\* name and its notes, and no command beyond those of the fields, the
\* attachments and the password.
C6_NotesOnlyWhenNonEmpty ==
    \A i \in DOMAIN processedBwItems :
        LET bwItem == processedBwItems[i]
        IN  /\ bwItem.Notes = <<>> => NotesCalls(i) = {}
            /\ Cardinality(NotesCalls(i)) <= 1
            /\ (bwItem.Notes # <<>> /\ i < itemIdx) => Cardinality(NotesCalls(i)) = 1
            /\ \A m \in NotesCalls(i) :
                  calls[m].itemName = bwItem.ItemName /\ calls[m].value = bwItem.Notes
            /\ Cardinality(CmdsOf(i)) <=
                  Len(bwItem.Fields) + Len(bwItem.Attachments)
                  + (IF bwItem.Password # <<>> THEN 1 ELSE 0)

\* A finished run over an item without notes and an item with notes.
C6_Witness ==
    /\ pc = "done"
    /\ \E i, k \in DOMAIN processedBwItems :
          /\ processedBwItems[i].Notes = <<>>
          /\ processedBwItems[k].Notes # <<>>
          /\ NotesCalls(k) # {}
          /\ CmdsOf(i) # {}

whereOfCmd(n) == [item |-> cmds[n].item, kind |-> cmds[n].kind, entry |-> cmds[n].entry]

kindOfOp(op) ==
    IF op = "SetFieldOnItem" THEN "field"
    ELSE IF op = "SetAttachmentOnItem" THEN "attachment"
    ELSE IF op = "SetPassword" THEN "password"
    ELSE "notes"

whereOfCall(m) ==
    IF calls[m].op = "UpdateNotesOnItem" THEN [item |-> calls[m].item]
    ELSE [item |-> calls[m].item, kind |-> kindOfOp(calls[m].op), entry |-> calls[m].entry]

ErrsAt(kinds, where) ==
    {e \in DOMAIN errs : errs[e].kind \in kinds /\ errs[e].where = where}

\* C7: after a successful expansion the returned aggregate holds one error
\* for each failed command, one for each failed store call, and nothing
\* else; it is nil exactly when nothing failed.
C7_OneErrorPerFailure ==
    (pc = "done" /\ paramErr = Nil) =>
        /\ Len(errs) = Cardinality(FailedCmds) + Cardinality(FailedCalls)
        /\ \A n \in FailedCmds :
              /\ Cardinality(ErrsAt({"command"}, whereOfCmd(n))) = 1
              /\ ErrsAt({"upload"}, whereOfCmd(n)) = {}
        /\ \A m \in FailedCalls :
              Cardinality(ErrsAt({"upload", "notes"}, whereOfCall(m))) = 1
        /\ (result = Nil) <=> (FailedCmds = {} /\ FailedCalls = {})
        /\ result # Nil => result.errs = errs

\* One failing field command and one succeeding attachment: the attachment
\* was stored and the aggregate holds one failure.
C7_Witness ==
    /\ pc = "done"
    /\ paramErr = Nil
    /\ Len(processedBwItems) = 1
    /\ Len(cmds) = 2
    /\ cmds[1].kind = "field" /\ ~cmds[1].ok
    /\ cmds[2].kind = "attachment" /\ cmds[2].ok
    /\ Len(calls) = 1 /\ calls[1].op = "SetAttachmentOnItem" /\ calls[1].ok
    /\ result # Nil /\ Len(result.errs) = 1

generatorOf(m) ==
    LET bwItem == processedBwItems[calls[m].item]
    IN  IF calls[m].op = "SetFieldOnItem" THEN bwItem.Fields[calls[m].entry]
        ELSE IF calls[m].op = "SetAttachmentOnItem" THEN bwItem.Attachments[calls[m].entry]
        ELSE fieldGenerator(<<>>, bwItem.Password)

\* C8: every SetFieldOnItem, SetAttachmentOnItem and SetPassword call carries
\* the output of a successful execution of the command of that field,
\* attachment or password, with the item's name (and the entry's name); a
\* failed command has no store call; an empty password has neither a command
\* nor a SetPassword call.
C8_UploadOnlyAfterSuccess ==
    /\ \A m \in DOMAIN calls :
          calls[m].op # "UpdateNotesOnItem" =>
             /\ calls[m].value # NilOut
             /\ calls[m].itemName = processedBwItems[calls[m].item].ItemName
             /\ calls[m].name = generatorOf(m).Name
             /\ \E n \in DOMAIN cmds :
                   /\ cmds[n].ok
                   /\ cmds[n].out = calls[m].value
                   /\ whereOfCmd(n) = whereOfCall(m)
                   /\ cmds[n].cmd = generatorOf(m).Cmd
    /\ \A n \in FailedCmds :
          \A m \in DOMAIN calls : whereOfCall(m) # whereOfCmd(n)
    /\ \A i \in DOMAIN processedBwItems :
          processedBwItems[i].Password = <<>> =>
             /\ \A n \in CmdsOf(i) : cmds[n].kind # "password"
             /\ \A m \in CallsOf(i) : calls[m].op # "SetPassword"

\* A finished run with a failed command, a stored password and an item
\* without password.
C8_Witness ==
    /\ pc = "done"
    /\ FailedCmds # {}
    /\ \E m \in DOMAIN calls : calls[m].op = "SetPassword" /\ calls[m].ok
    /\ \E m \in DOMAIN calls : calls[m].op = "SetFieldOnItem"
    /\ \E i \in DOMAIN processedBwItems :
          processedBwItems[i].Password = <<>> /\ i < itemIdx

-----------------------------------------------------------------------------
(* Properties of processBwParameters, checked under SpecExpand *)

Occurs(sub, s) ==
    \E n \in 1..(Len(s) - Len(sub) + 1) : SubSeq(s, n, n + Len(sub) - 1) = sub

StringsOf(bwItem) ==
    {bwItem.ItemName, bwItem.Password, bwItem.Notes}
    \cup {bwItem.Fields[n].Name : n \in DOMAIN bwItem.Fields}
    \cup {bwItem.Fields[n].Cmd : n \in DOMAIN bwItem.Fields}
    \cup {bwItem.Attachments[n].Name : n \in DOMAIN bwItem.Attachments}
    \cup {bwItem.Attachments[n].Cmd : n \in DOMAIN bwItem.Attachments}

\* The combinations of parameter values of a template: an index into the
\* list of each parameter.
Combinations(bwItem) ==
    LET D == DOMAIN bwItem.Params
        most == UNION {1..Len(bwItem.Params[p]) : p \in D}
    IN  {c \in [D -> most] : \A p \in D : c[p] <= Len(bwItem.Params[p])}

\* The text with every placeholder of a declared parameter replaced by the
\* combination's value, in one pass over the template's text.
RECURSIVE Substituted(_, _, _)
Substituted(s, params, c) ==
    IF s = <<>> THEN <<>>
    ELSE LET here == {p \in DOMAIN params :
                         /\ Len(Placeholder(p)) <= Len(s)
                         /\ SubSeq(s, 1, Len(Placeholder(p))) = Placeholder(p)}
         IN  IF here # {}
             THEN LET p == CHOOSE x \in here : TRUE
                  IN  params[p][c[p]]
                      \o Substituted(SubSeq(s, Len(Placeholder(p)) + 1, Len(s)), params, c)
             ELSE <<Head(s)>> \o Substituted(Tail(s), params, c)

SubstitutedGenerators(gens, params, c) ==
    [n \in DOMAIN gens |->
        fieldGenerator(Substituted(gens[n].Name, params, c),
                       Substituted(gens[n].Cmd, params, c))]

ItemFor(bwItem, c) ==
    [bwItem EXCEPT
        !.ItemName    = Substituted(bwItem.ItemName, bwItem.Params, c),
        !.Fields      = SubstitutedGenerators(bwItem.Fields, bwItem.Params, c),
        !.Attachments = SubstitutedGenerators(bwItem.Attachments, bwItem.Params, c),
        !.Password    = Substituted(bwItem.Password, bwItem.Params, c),
        !.Notes       = Substituted(bwItem.Notes, bwItem.Params, c)]

Texts(bwItem) == [bwItem EXCEPT !.Params = <<>>]

\* C2: when no copy fails, a template expands into one item per combination
\* of parameter values (as many items as the product of the lengths of its
\* params lists, the template itself when it has no params), and the item of
\* a combination is the template with every placeholder of a declared
\* parameter replaced by the combination's value.
C2_OneItemPerCombination ==
    (pc = "returned" /\ copyFails = {}) =>
        \A k \in DOMAIN config :
            LET t == config[k]
                h == holders[k]
            IN  /\ Len(h) = Product([p \in DOMAIN t.Params |-> Len(t.Params[p])],
                                    DOMAIN t.Params)
                /\ DOMAIN t.Params = {} => h = <<t>>
                /\ \A c \in Combinations(t) :
                      Cardinality({n \in DOMAIN h : Texts(h[n]) = Texts(ItemFor(t, c))})
                      = Cardinality({d \in Combinations(t) :
                                        Texts(ItemFor(t, d)) = Texts(ItemFor(t, c))})
                /\ \A n \in DOMAIN h :
                      \E c \in Combinations(t) : Texts(h[n]) = Texts(ItemFor(t, c))

\* C3: when no copy fails and a value of a parameter p holds the placeholder
\* of another declared parameter q, a template that uses the placeholder of
\* p has that value, unchanged, in the text of an expanded item.
C3_ValuesNotReExpanded ==
    (pc = "returned" /\ copyFails = {}) =>
        \A k \in DOMAIN config :
            LET t == config[k]
            IN  \A p, q \in DOMAIN t.Params :
                  \A vi \in DOMAIN t.Params[p] :
                     (/\ p # q
                      /\ Occurs(Placeholder(q), t.Params[p][vi])
                      /\ \E s \in StringsOf(t) : Occurs(Placeholder(p), s))
                     => \E n \in DOMAIN holders[k] :
                           \E s \in StringsOf(holders[k][n]) :
                              Occurs(t.Params[p][vi], s)

\* C4: when no copy fails, the set of items a template expanded into is the
\* set it expands into under every iteration order of its params.
C4_OrderIndependent ==
    (pc = "returned" /\ copyFails = {}) =>
        \A k \in DOMAIN config :
            \A o \in ParamOrders(config[k]) :
                Range(holders[k]) = Range(bwItemsProcessingHolder(k, config[k], o, {}))

\* C9: a failed copy is in the returned errors, and the returned items are
\* those of the templates expanded without a failed copy, in order.
C9_FailedTemplateContributesNothing ==
    pc = "returned" =>
        /\ (paramErr # Nil) <=> (copyFails # {})
        /\ processedBwItems =
              Flatten([k \in DOMAIN config |->
                          IF \E f \in copyFails : f[1] = k THEN <<>> ELSE holders[k]])

-----------------------------------------------------------------------------
(* Property of the matcher, checked under SpecMatcher *)

\* C10: the matcher returns true exactly when matchID is not empty and the
\* job carries the label matchLabel with the value matchID.
C10_MatchesExactlyOnID ==
    pc = "matched" =>
        (idMatches <=>
            /\ matcher.matchID # ""
            /\ matcher.matchLabel \in DOMAIN prowJob.Labels
            /\ prowJob.Labels[matcher.matchLabel] = matcher.matchID)

\* An empty matchID against a job without the label, not matched.
C10_Witness ==
    /\ pc = "matched"
    /\ matcher.matchID = ""
    /\ matcher.matchLabel \notin DOMAIN prowJob.Labels
    /\ ~idMatches

====
